---- MODULE Spec2Model ----
(***************************************************************************)
(* Value range analysis and int64 -> int32 strength reduction of           *)
(* torch/_inductor/optimize_indexing.py.                                   *)
(*                                                                         *)
(* Numbers.  Python and sympy integers are unbounded, while the integers   *)
(* of the model checker are 32-bit, and the code compares against 2^31.    *)
(* A number is therefore kept as two limbs, hi * Base + lo with            *)
(* 0 <= lo < Base, which is exact for |n| < 2^45.  A scalar is a record    *)
(*   [k |-> "int" | "float" | "bool", inf |-> -1 | 0 | 1, hi, lo];        *)
(* inf # 0 is -math.inf / math.inf (a float), k = "bool" is one of the     *)
(* sympy Boolean classes the bool handler returns.  Floats of the model    *)
(* are integer-valued or infinite.                                         *)
(***************************************************************************)
EXTENDS Integers, Sequences, FiniteSets, TLC

VARIABLES
    target,             \* node -> node.target (the opcode string)
    args,               \* node -> node.args: [x, y, dtype, index]
    indices_ranges,     \* OptimizeIndexing.indices_range: extent of x0
    replacement_vals,   \* OptimizeIndexing.replacement_vals
    interp_env,         \* OptimizeIndexing.interp_env: node -> ValueRanges
    tensor_values_set,  \* OptimizeIndexing.tensor_values_set
    int64_dtype_nodes,  \* run(): the list of candidates
    pos,                \* run(): position of the for loop in that list
    pc,                 \* "init", "loop", "done", "raised"; "unit", "returned"
    unit                \* the last call of a range function and its result

vars == <<target, args, indices_ranges, replacement_vals, interp_env,
          tensor_values_set, int64_dtype_nodes, pos, pc, unit>>

graphVars == <<target, args, indices_ranges, replacement_vals, interp_env,
               tensor_values_set, int64_dtype_nodes, pos>>

-----------------------------------------------------------------------------
(* Unbounded integers in two limbs *)

Base == 2^15

Norm(h, l) == [hi |-> h + (l \div Base), lo |-> l % Base]

NLe(a, b) == a.hi < b.hi \/ (a.hi = b.hi /\ a.lo <= b.lo)

NAdd(a, b) == Norm(a.hi + b.hi, a.lo + b.lo)

NNeg(a) == Norm(-a.hi, -a.lo)

NMul(a, b) ==
    Norm(a.hi * b.hi * Base + a.hi * b.lo + a.lo * b.hi, a.lo * b.lo)

(* scalars *)

Scalar(kind, n) == [k |-> kind, inf |-> 0, hi |-> n.hi, lo |-> n.lo]

IntVal(n) == Scalar("int", Norm(0, n))

FloatVal(n) == Scalar("float", Norm(0, n))

PosInf == [k |-> "float", inf |-> 1, hi |-> 0, lo |-> 0]

NegInf == [k |-> "float", inf |-> -1, hi |-> 0, lo |-> 0]

BooleanFalse == [k |-> "bool", inf |-> 0, hi |-> 0, lo |-> 0]

BooleanTrue == [k |-> "bool", inf |-> 0, hi |-> 0, lo |-> 1]

IsInf(v) == v.inf # 0

\* the kind of the result of an arithmetic operator: float is contagious
Kind2(a, b) == IF a.k = "float" \/ b.k = "float" THEN "float" ELSE "int"

\* Python's a <= b on numbers
VLe(a, b) ==
    IF a.inf # b.inf THEN a.inf < b.inf
    ELSE IF a.inf # 0 THEN TRUE
    ELSE NLe(a, b)

\* min(a, b) and max(a, b): Python returns the first of two equal arguments
VMin(a, b) == IF VLe(a, b) THEN a ELSE b

VMax(a, b) == IF VLe(b, a) THEN a ELSE b

\* lambda x: -x
VNeg(a) ==
    IF a.inf # 0 THEN [a EXCEPT !.inf = -a.inf]
    ELSE Scalar(a.k, NNeg(a))

\* abs
VAbs(a) == IF VLe(IntVal(0), a) THEN a ELSE VNeg(a)

\* operator.add (no operand is nan; inf + -inf does not occur in the model)
VAdd(a, b) ==
    IF a.inf # 0 THEN a
    ELSE IF b.inf # 0 THEN b
    ELSE Scalar(Kind2(a, b), NAdd(a, b))

\* operator.sub
VSub(a, b) == VAdd(a, VNeg(b))

\* operator.mul (0 * inf does not occur in the model)
VSign(a) == IF a.inf # 0 THEN a.inf ELSE IF a.hi < 0 THEN -1 ELSE 1

VMul(a, b) ==
    IF a.inf # 0 \/ b.inf # 0
      THEN IF VSign(a) * VSign(b) > 0 THEN PosInf ELSE NegInf
      ELSE Scalar(Kind2(a, b), NMul(a, b))

\* operator.pow for an integer base and an exponent e >= 0
RECURSIVE VPowNat(_, _)
VPowNat(a, e) == IF e = 0 THEN IntVal(1) ELSE VMul(a, VPowNat(a, e - 1))

-----------------------------------------------------------------------------
(* class ValueRanges *)

ValueRanges(l, u) == [lower |-> l, upper |-> u]

\* the value of a node that returns nothing (store)
None == [k |-> "none", inf |-> 0, hi |-> 0, lo |-> 0]

NoneRange == ValueRanges(None, None)

Unbounded == ValueRanges(NegInf, PosInf)

\* the scalar functions the handlers pass to the combinators
Apply1(fn, v) ==
    CASE fn = "abs" -> VAbs(v)
      [] fn = "neg" -> VNeg(v)
      [] fn = "square" -> VMul(v, v)

\* pow: integer base, exponent >= 0
Apply2(fn, v, w) ==
    CASE fn = "add" -> VAdd(v, w)
      [] fn = "mul" -> VMul(v, w)
      [] fn = "sub" -> VSub(v, w)
      [] fn = "pow" -> VPowNat(v, w.lo)

unary_map(x, fn) == ValueRanges(Apply1(fn, x.lower), Apply1(fn, x.upper))

checked_unary_map(x, fn) ==
    LET out == unary_map(x, fn)
    IN  ValueRanges(VMin(out.lower, out.upper), VMax(out.lower, out.upper))

binary_map(x, y, fn) ==
    ValueRanges(Apply2(fn, x.lower, y.lower), Apply2(fn, x.upper, y.upper))

\* itertools.product([a.lower, a.upper], [b.lower, b.upper]), in its order
binary_map_products(a, b, fn) ==
    LET p1 == Apply2(fn, a.lower, b.lower)
        p2 == Apply2(fn, a.lower, b.upper)
        p3 == Apply2(fn, a.upper, b.lower)
        p4 == Apply2(fn, a.upper, b.upper)
    IN  ValueRanges(VMin(VMin(VMin(p1, p2), p3), p4),
                    VMax(VMax(VMax(p1, p2), p3), p4))

(* class ValueRangeAnalysis *)

bool_handler == ValueRanges(BooleanFalse, BooleanTrue)

default_handler == Unbounded

is_floating_point(dtype) ==
    dtype \in {"float16", "bfloat16", "float32", "float64"}

to_dtype(x, dtype) ==
    IF x.lower.k = "bool"
      THEN IF is_floating_point(dtype)
             THEN ValueRanges(FloatVal(0), FloatVal(1))
             ELSE ValueRanges(IntVal(0), IntVal(1))
      ELSE x

abs(x) == checked_unary_map(x, "abs")

neg(x) == checked_unary_map(x, "neg")

square(x) == checked_unary_map(x, "square")

add(a, b) == binary_map(a, b, "add")

mul(a, b) == binary_map_products(a, b, "mul")

sub(a, b) == binary_map_products(a, b, "sub")

\* pow on integer ranges with exponents >= 0
pow(a, b) == binary_map_products(a, b, "pow")

-----------------------------------------------------------------------------
(* val_expressable_in_32_bits, range_expressable_in_32_bits *)

\* torch.iinfo(torch.int32).max and .min
IInt32Max == Scalar("int", [hi |-> 2^16 - 1, lo |-> Base - 1])

IInt32Min == Scalar("int", [hi |-> -(2^16), lo |-> 0])

\* 2**24
Mantissa == Scalar("int", [hi |-> 2^9, lo |-> 0])

\* the values on which val_expressable_in_32_bits raises "Unexpected value":
\* neither a sympy.Expr, nor a float, nor an int
ValueRaises(val) == val.k \notin {"int", "float"}

\* variant: the limits themselves are not expressible
ValExpressableStrict(val) ==
    IF val.k = "float"
      THEN VLe(val, Mantissa) /\ VLe(VNeg(Mantissa), val)
             /\ val # Mantissa /\ val # VNeg(Mantissa)
      ELSE val.k = "int" /\ VLe(val, IInt32Max) /\ VLe(IInt32Min, val)
             /\ val # IInt32Max /\ val # IInt32Min

val_expressable_in_32_bits(val) ==
    IF val.k = "float"
      THEN VLe(val, Mantissa) /\ VLe(VNeg(Mantissa), val)
      ELSE val.k = "int" /\ VLe(val, IInt32Max) /\ VLe(IInt32Min, val)

\* `and` evaluates its right operand only when the left one is true
RangeRaises(range) ==
    \/ ValueRaises(range.lower)
    \/ val_expressable_in_32_bits(range.lower) /\ ValueRaises(range.upper)

\* variant: only the lower bound is looked at
RangeLowerExpressable(range) == val_expressable_in_32_bits(range.lower)

range_expressable_in_32_bits(range) ==
    val_expressable_in_32_bits(range.lower)
      /\ val_expressable_in_32_bits(range.upper)

-----------------------------------------------------------------------------
(* The loop body: fx graph nodes in graph order, 1 .. Len(target).         *)
(* node.args is the record [x, y, dtype, index]: x and y are the nodes     *)
(* the node reads (0: none), dtype is args[2] of to_dtype, index is the    *)
(* name of the indexing expression the node reads through get_index.       *)

NoArgs == [x |-> 0, y |-> 0, dtype |-> "none", index |-> "none"]

NodesOf(tgt) == 1 .. Len(tgt)

\* node.users
Users(a, node) == {m \in DOMAIN a : a[m].x = node \/ a[m].y = node}

\* "masked_subblock" in node.target, "set_indirect" in node.target
IsMaskedSubblock(t) == t \in {"masked_subblock0", "masked_subblock1"}

IsSetIndirect(t) == t \in {"set_indirect0", "set_indirect1"}

\* int(dominated.target[len("set_indirect"):]), then loop_body.indirect_vars[idx]
IndirectVarOf(t) == IF t = "set_indirect0" THEN "indirect0" ELSE "indirect1"

(* Indexing expressions c + x*x0 + i*indirect0 + xi*x0*indirect0 over the  *)
(* loop variable x0 and the indirect variable indirect0, both positive     *)
(* integer symbols.                                                        *)
IndexingExpr(name) ==
    CASE name = "index0" -> [c |-> 0, x |-> 4, i |-> 0, xi |-> 0]
      [] name = "index1" -> [c |-> 0, x |-> 1, i |-> 1, xi |-> 0]
      [] name = "index2" -> [c |-> 0, x |-> 0, i |-> -5, xi |-> 1]
      [] name = "index3" -> [c |-> 7, x |-> -1, i |-> 0, xi |-> 0]

\* expr.free_symbols
FreeSymbols(e) ==
    {s \in {"x0"} : e.x # 0 \/ e.xi # 0}
      \cup {s \in {"indirect0"} : e.i # 0 \/ e.xi # 0}

\* loop_body.indexing_exprs: the expressions the nodes of the body read
IndexingNames(a) == {a[n].index : n \in DOMAIN a} \ {"none"}

\* self.index_indirect_dependecies[index], lines 281-285
IndexIndirectDependencies(index) ==
    FreeSymbols(IndexingExpr(index)) \cap {"indirect0", "indirect1"}

\* dominated_nodes(initial_queue, skip_filter): skip is applied to users only
RECURSIVE Dominate(_, _, _)
Dominate(a, set, skip) ==
    LET new == {u \in DOMAIN a : /\ u \notin set
                                 /\ u \notin skip
                                 /\ \E n \in set : u \in Users(a, n)}
    IN  IF new = {} THEN set ELSE Dominate(a, set \cup new, skip)

\* variant: the initial queue is not part of the result
DominatedUsersOnly(a, initial_queue, skip) ==
    Dominate(a, initial_queue, skip) \ initial_queue

dominated_nodes(a, initial_queue, skip) == Dominate(a, initial_queue, skip)

\* try_to_reduce_precision.skip_filter, lines 340-345
skip_filter(tgt, a, node) ==
    tgt[node] = "to_dtype" /\ a[node].dtype \in {"int32", "float32", "float64"}

SkipSet(tgt, a) == {n \in DOMAIN a : skip_filter(tgt, a, n)}

\* variant: the loads, reductions and masked subblocks only, not their users
TensorRootsOnly(tgt, a) ==
    {n \in DOMAIN a : tgt[n] \in {"load", "reduction"} \/ IsMaskedSubblock(tgt[n])}

\* __init__, lines 294-301
TensorValuesSet(tgt, a) ==
    dominated_nodes(a,
        {n \in DOMAIN a : tgt[n] \in {"load", "reduction"}
                            \/ IsMaskedSubblock(tgt[n])},
        {})

-----------------------------------------------------------------------------
(* get_index and _get_index_impl.  The derivative of the expression with   *)
(* respect to a symbol is a + b*s for the other symbol s > 0; sympy knows  *)
(* its sign when a and b do not disagree.                                  *)

DiffSign(a0, b0) ==
    IF b0 = 0 THEN (IF a0 > 0 THEN "positive" ELSE "not positive")
    ELSE IF b0 > 0 THEN (IF a0 >= 0 THEN "positive" ELSE "unknown")
    ELSE (IF a0 <= 0 THEN "not positive" ELSE "unknown")

Diff(e, symbol) ==
    IF symbol = "x0" THEN DiffSign(e.x, e.xi) ELSE DiffSign(e.i, e.xi)

Term(coef, v) == IF coef = 0 THEN IntVal(0) ELSE VMul(IntVal(coef), v)

\* sympy_subs(expr, {x0: vx, indirect0: vi})
sympy_subs(e, vx, vi) ==
    VAdd(VAdd(VAdd(IntVal(e.c), Term(e.x, vx)), Term(e.i, vi)),
         IF e.xi = 0 THEN IntVal(0) ELSE VMul(Term(e.xi, vx), vi))

\* the bound of a symbol that the substitution picks, lines 479-488
Pick(rv, e, symbol, wantUpper) ==
    IF symbol \notin FreeSymbols(e) THEN IntVal(0)
    ELSE IF (Diff(e, symbol) = "positive") = wantUpper
           THEN rv[symbol].upper
           ELSE rv[symbol].lower

get_index_impl(rv, name) ==
    LET e == IndexingExpr(name)
        symbols == FreeSymbols(e)
        other_symbols == {sym \in symbols : Diff(e, sym) = "unknown"}
    IN  IF symbols = {} THEN ValueRanges(IntVal(e.c), IntVal(e.c))
        ELSE IF other_symbols = {}
          THEN ValueRanges(
                 sympy_subs(e, Pick(rv, e, "x0", FALSE),
                               Pick(rv, e, "indirect0", FALSE)),
                 sympy_subs(e, Pick(rv, e, "x0", TRUE),
                               Pick(rv, e, "indirect0", TRUE)))
          ELSE Unbounded

\* get_index: the replacement table after the call (the result is rv'[name])
get_index(rv, name) ==
    IF name \in DOMAIN rv THEN rv ELSE (name :> get_index_impl(rv, name)) @@ rv

\* replace_indirect
replace_indirect(rv, old, new) == (old :> new) @@ rv

\* __init__, lines 290-291
SeedRange(extent) == ValueRanges(IntVal(0), extent)

-----------------------------------------------------------------------------
(* InterpreterShim.run(V.get_ops_handler(), initial_env = self.interp_env) *)

\* the range a masked subblock returns: its body here is constant(0)
SubblockOutput == ValueRanges(IntVal(0), IntVal(0))

\* the value of one node, given the values of the nodes before it
NodeValue(tgt, a, n, env, rv) ==
    LET t == tgt[n]
        x == IF a[n].x = 0 THEN NoneRange ELSE env[a[n].x]
        y == IF a[n].y = 0 THEN NoneRange ELSE env[a[n].y]
    IN  CASE t = "index_expr" -> rv[a[n].index]
          [] t = "load" -> Unbounded
          [] t = "reduction" -> Unbounded
          [] t = "store" -> NoneRange
          [] t = "output" -> x
          [] t = "to_dtype" -> to_dtype(x, a[n].dtype)
          [] t = "neg" -> neg(x)
          [] t = "abs" -> abs(x)
          [] t = "add" -> add(x, y)
          [] t = "logical_not" -> bool_handler
          [] IsSetIndirect(t) -> x
          [] IsMaskedSubblock(t) -> SubblockOutput
          [] OTHER -> default_handler

RECURSIVE Interp(_, _, _, _, _)
Interp(tgt, a, n, env, rv) ==
    IF n > Len(tgt) THEN [env |-> env, rv |-> rv]
    ELSE LET rv1 == IF a[n].index = "none" THEN rv
                    ELSE get_index(rv, a[n].index)
             val == NodeValue(tgt, a, n, env, rv1)
             rv2 == IF IsSetIndirect(tgt[n])
                      THEN replace_indirect(rv1, IndirectVarOf(tgt[n]), val)
                      ELSE rv1
         IN  IF n \in DOMAIN env
               THEN Interp(tgt, a, n + 1, env, rv1)
               ELSE Interp(tgt, a, n + 1, (n :> val) @@ env, rv2)

\* run, lines 306-314: the environment the interpreter starts from
InitialEnv(tgt, tvs) ==
    [n \in {m \in tvs : ~IsMaskedSubblock(tgt[m]) /\ ~IsSetIndirect(tgt[m])}
       |-> Unbounded]

\* run, lines 321-329
Int64DtypeNodes(tgt, a, tvs) ==
    {n \in DOMAIN a : /\ tgt[n] = "to_dtype"
                      /\ a[n].dtype = "int64"
                      /\ n \notin tvs}

-----------------------------------------------------------------------------
(* try_to_reduce_precision *)

\* int(v) of a number of the model
ToInt(v) == [v EXCEPT !.k = "int"]

\* variant: no index stops the walk
IndirectNeverAborts(a, rv, var) == FALSE

\* lines 358-374: some index that depends on the bound variable stops the walk
IndirectAborts(a, rv, var) ==
    \E index \in IndexingNames(a) :
        /\ var \in IndexIndirectDependencies(index)
        /\ LET index_val == rv[index]
           IN  \/ IsInf(index_val.lower)
               \/ IsInf(index_val.upper)
               \/ ~range_expressable_in_32_bits(
                      ValueRanges(ToInt(index_val.lower), ToInt(index_val.upper)))

\* one iteration of the loop at line 350: "pass" (next member), "abort"
\* (return without narrowing) or "raise" (val_expressable_in_32_bits raises)
MemberStatus(tgt, a, env, rv, dominated) ==
    IF tgt[dominated] \in {"store", "output"} THEN "pass"
    ELSE IF IsSetIndirect(tgt[dominated])
              /\ IndirectAborts(a, rv, IndirectVarOf(tgt[dominated]))
      THEN "abort"
    ELSE IF RangeRaises(env[dominated]) THEN "raise"
    ELSE IF ~range_expressable_in_32_bits(env[dominated]) THEN "abort"
    ELSE "pass"

\* The walk visits the members of a Python set of nodes, whose order is not
\* fixed: the first member that does not pass decides.
Outcomes(tgt, a, env, rv, node) ==
    LET st == {MemberStatus(tgt, a, env, rv, d) :
                 d \in dominated_nodes(a, {node}, SkipSet(tgt, a))}
    IN  IF st \subseteq {"pass"} THEN {"narrow"} ELSE st \ {"pass"}

\* variant: the users of the node are rewritten too
SetInt32WithUsers(a, node) ==
    [n \in DOMAIN a |->
        IF n = node \/ n \in Users(a, node)
          THEN [a[n] EXCEPT !.dtype = "int32"] ELSE a[n]]

\* lines 379-381
SetInt32(a, node) == [a EXCEPT ![node].dtype = "int32"]

-----------------------------------------------------------------------------
(* Loop bodies of the model *)

MaxNodes == 4

MaxChain == 5

DTypes == {"int64", "int32", "float16"}

DependentIndexes == {"index1", "index2"}

\* the result of a node: a number, a boolean, or nothing
TypeOf(t) ==
    IF t \in {"store", "output"} THEN "none"
    ELSE IF t = "logical_not" THEN "bool"
    ELSE "num"

\* the extents of x0: 100 and 2^29
Extents == {IntVal(100), Scalar("int", [hi |-> 2^14, lo |-> 0])}

Node(t, x, y, dtype, index) ==
    [t |-> t, a |-> [x |-> x, y |-> y, dtype |-> dtype, index |-> index]]

(* The nodes that may follow the nodes tgt, a.  A node reads one of the    *)
(* last `span` nodes; an indirect variable is bound once, and an indexing  *)
(* expression over it is read only after it is bound.                      *)
NextNodes(tgt, a, span, wide) ==
    LET n == Len(tgt)
        ps == {p \in DOMAIN tgt : p > n - span /\ TypeOf(tgt[p]) # "none"}
        nums == {p \in ps : TypeOf(tgt[p]) = "num"}
        bound == \E p \in DOMAIN tgt : IsSetIndirect(tgt[p])
    IN  {Node("index_expr", 0, 0, "none", "index0")}
        \cup {Node("index_expr", 0, 0, "none", i) :
                i \in {j \in DependentIndexes : bound}}
        \cup {Node("to_dtype", p, 0, d, "none") : p \in ps, d \in DTypes}
        \cup {Node(op, p, 0, "none", "none") :
                p \in ps, op \in {"store", "logical_not"}}
        \cup {Node("sin", p, 0, "none", "none") : p \in nums}
        \cup {Node("set_indirect0", p, 0, "none", "none") :
                p \in {q \in nums : ~bound}}
        \cup {Node("load", 0, 0, "none", "index0") : w \in {wide} \ {FALSE}}
        \cup {Node("masked_subblock0", p, 0, "none", "none") :
                p \in {q \in ps : wide}}
        \cup {Node("reduction", p, 0, "none", "none") :
                p \in {q \in nums : wide}}
        \cup {Node("add", pq[1], pq[2], "none", "none") :
                pq \in {r \in nums \X nums : wide /\ r[1] < r[2]}}

\* the nodes of a set in graph order
RECURSIVE SortedSeq(_)
SortedSeq(set) ==
    IF set = {} THEN <<>>
    ELSE LET m == CHOOSE x \in set : \A z \in set : x <= z
         IN  <<m>> \o SortedSeq(set \ {m})

\* no call yet
Idle == [fn |-> "none", a |-> NoneRange, b |-> NoneRange, x |-> None,
         v |-> 0, w |-> 0, r |-> 0, out |-> NoneRange, ok |-> FALSE]

-----------------------------------------------------------------------------
(* The pass: OptimizeIndexing(loop_body, indices, indexing).run() *)

\* the state after __init__ for the body tgt, a
Constructed(tgt, a) ==
    \E extent \in Extents :
        /\ target = tgt
        /\ args = a
        /\ indices_ranges = extent
        /\ replacement_vals = replace_indirect(<<>>, "x0", SeedRange(extent))
        /\ interp_env = <<>>
        /\ tensor_values_set = TensorValuesSet(tgt, a)
        /\ int64_dtype_nodes = <<>>
        /\ pos = 0
        /\ pc = "init"
        /\ unit = Idle

\* the bodies of exactly n nodes
RECURSIVE Bodies(_, _, _)
Bodies(n, span, wide) ==
    IF n = 0 THEN {[tgt |-> <<>>, a |-> <<>>]}
    ELSE UNION {{[tgt |-> Append(g.tgt, c.t), a |-> Append(g.a, c.a)] :
                    c \in NextNodes(g.tgt, g.a, span, wide)} :
                g \in Bodies(n - 1, span, wide)}

\* run, lines 306-329: interpret the body, collect the candidates `nodes`
RunWith(nodes) ==
    /\ pc = "init"
    /\ LET r == Interp(target, args, 1,
                       InitialEnv(target, tensor_values_set), replacement_vals)
       IN  /\ interp_env' = r.env
           /\ replacement_vals' = r.rv
    /\ int64_dtype_nodes' = nodes
    /\ pos' = 1
    /\ pc' = IF nodes = <<>> THEN "done" ELSE "loop"
    /\ UNCHANGED <<target, args, indices_ranges, tensor_values_set, unit>>

\* all_nodes yields the nodes in graph order
Run == RunWith(SortedSeq(Int64DtypeNodes(target, args, tensor_values_set)))

\* run, lines 333-334: one iteration, try_to_reduce_precision(node)
TryToReducePrecision ==
    /\ pc = "loop"
    /\ LET node == int64_dtype_nodes[pos]
       IN  \E o \in Outcomes(target, args, interp_env, replacement_vals, node) :
             /\ args' = IF o = "narrow" THEN SetInt32(args, node) ELSE args
             /\ pos' = IF o = "raise" THEN pos ELSE pos + 1
             /\ pc' = IF o = "raise" THEN "raised"
                      ELSE IF pos = Len(int64_dtype_nodes) THEN "done"
                      ELSE "loop"
    /\ UNCHANGED <<target, indices_ranges, replacement_vals, interp_env,
                   tensor_values_set, int64_dtype_nodes, unit>>

\* ... for every body of 1 .. max nodes
Start(max, span, wide) ==
    \E n \in 0 .. max - 1 :
        \E g \in Bodies(n, span, wide) :
            \E c \in NextNodes(g.tgt, g.a, span, wide) :
                Constructed(Append(g.tgt, c.t), Append(g.a, c.a))

\* bodies of up to MaxNodes nodes, each reading one of the two nodes before it
Init == Start(MaxNodes, 2, TRUE)

Next == Run \/ TryToReducePrecision

Spec == Init /\ [][Next]_vars

\* the same pass over chains with indirect indexing
\* chains of up to MaxChain nodes over the indexing operations
InitIndirect == Start(MaxChain, 1, FALSE)

SpecIndirect == InitIndirect /\ [][Next]_vars

\* The candidates in any order: the pass of which every processing order
\* of the candidates is a behaviour.
Orders(set) ==
    {f \in [1 .. Cardinality(set) -> set] :
        \A i, j \in DOMAIN f : f[i] = f[j] => i = j}

RunAnyOrder ==
    \E nodes \in Orders(Int64DtypeNodes(target, args, tensor_values_set)) :
        RunWith(nodes)

NextAnyOrder == RunAnyOrder \/ TryToReducePrecision

SpecAnyOrder == Init /\ [][NextAnyOrder]_vars

-----------------------------------------------------------------------------
(* Calls of the range functions on their own *)

MaxAbs == 3

MaxExp == 3

Small == -MaxAbs .. MaxAbs

AsFloat(v) == [v EXCEPT !.k = "float"]

Near(v) == {VAdd(v, IntVal(d)) : d \in Small}

\* integers and floats around 0 and around the limits, and the infinities
UnitScalars ==
    LET ints == Near(IntVal(0)) \cup Near(IInt32Max) \cup Near(IInt32Min)
        flts == Near(IntVal(0)) \cup Near(Mantissa) \cup Near(VNeg(Mantissa))
    IN  ints \cup {AsFloat(v) : v \in flts} \cup {PosInf, NegInf}

IntRange(l, u) == ValueRanges(IntVal(l), IntVal(u))

Unary(fn, x) ==
    CASE fn = "neg" -> neg(x)
      [] fn = "abs" -> abs(x)
      [] fn = "square" -> square(x)

Binary(fn, a, b) ==
    CASE fn = "add" -> add(a, b)
      [] fn = "sub" -> sub(a, b)
      [] fn = "mul" -> mul(a, b)
      [] fn = "pow" -> pow(a, b)

\* v ** w on Python integers, w >= 0 (0 ** 0 is 1)
RECURSIVE PowNat(_, _)
PowNat(v, w) == IF w = 0 THEN 1 ELSE v * PowNat(v, w - 1)

\* the operations on Python integers
ConcreteUnary(fn, v) ==
    CASE fn = "neg" -> -v
      [] fn = "abs" -> IF v < 0 THEN -v ELSE v
      [] fn = "square" -> v * v

ConcreteBinary(fn, v, w) ==
    CASE fn = "add" -> v + w
      [] fn = "sub" -> v - w
      [] fn = "mul" -> v * w
      [] fn = "pow" -> PowNat(v, w)

InitUnit ==
    /\ target = <<>>
    /\ args = <<>>
    /\ indices_ranges = IntVal(0)
    /\ replacement_vals = <<>>
    /\ interp_env = <<>>
    /\ tensor_values_set = {}
    /\ int64_dtype_nodes = <<>>
    /\ pos = 0
    /\ pc = "unit"
    /\ unit = Idle

CallValExpressable ==
    /\ pc = "unit"
    /\ \E v \in UnitScalars :
         unit' = [Idle EXCEPT !.fn = "val_expressable_in_32_bits", !.x = v,
                              !.ok = val_expressable_in_32_bits(v)]
    /\ pc' = "returned"
    /\ UNCHANGED graphVars

CallRangeExpressable ==
    /\ pc = "unit"
    /\ \E l \in UnitScalars, u \in UnitScalars :
         /\ VLe(l, u)
         /\ unit' = [Idle EXCEPT !.fn = "range_expressable_in_32_bits",
                                 !.a = ValueRanges(l, u),
                                 !.ok = range_expressable_in_32_bits(
                                            ValueRanges(l, u))]
    /\ pc' = "returned"
    /\ UNCHANGED graphVars

\* fn(range) for a concrete v in the range
CallUnary ==
    /\ pc = "unit"
    /\ \E fn \in {"neg", "abs", "square"}, l \in Small, u \in Small :
         /\ l <= u
         /\ \E v \in l .. u :
              unit' = [Idle EXCEPT !.fn = fn, !.a = IntRange(l, u),
                                   !.v = v, !.r = ConcreteUnary(fn, v),
                                   !.out = Unary(fn, IntRange(l, u))]
    /\ pc' = "returned"
    /\ UNCHANGED graphVars

\* fn(a, b) for concrete v in a and w in b; exponents are 0 .. MaxExp
CallBinary ==
    /\ pc = "unit"
    /\ \E fn \in {"add", "sub", "mul", "pow"},
          a1 \in Small, a2 \in Small, b1 \in Small, b2 \in Small :
         /\ a1 <= a2 /\ b1 <= b2
         /\ fn = "pow" => b1 >= 0 /\ b2 <= MaxExp
         /\ \E v \in a1 .. a2, w \in b1 .. b2 :
              unit' = [Idle EXCEPT !.fn = fn, !.a = IntRange(a1, a2),
                                   !.b = IntRange(b1, b2), !.v = v, !.w = w,
                                   !.r = ConcreteBinary(fn, v, w),
                                   !.out = Binary(fn, IntRange(a1, a2),
                                                      IntRange(b1, b2))]
    /\ pc' = "returned"
    /\ UNCHANGED graphVars

NextUnit ==
    CallValExpressable \/ CallRangeExpressable \/ CallUnary \/ CallBinary

SpecUnit == InitUnit /\ [][NextUnit]_vars

-----------------------------------------------------------------------------
(* Properties *)

\* the candidates of the pass, and the body as it was before the pass
Candidates == {int64_dtype_nodes[i] : i \in DOMAIN int64_dtype_nodes}

OrigArgs ==
    [n \in DOMAIN args |->
        IF n \in Candidates THEN [args[n] EXCEPT !.dtype = "int64"] ELSE args[n]]

\* n is c, or n is not in `stop` and reads a node that is reached from c
RECURSIVE Reached(_, _, _, _)
Reached(a, c, n, stop) ==
    \/ n = c
    \/ /\ n > c
       /\ n \notin stop
       /\ \/ a[n].x # 0 /\ Reached(a, c, a[n].x, stop)
          \/ a[n].y # 0 /\ Reached(a, c, a[n].y, stop)

ReachedFrom(a, c, stop) == {n \in DOMAIN a : Reached(a, c, n, stop)}

\* casts to int32, float32 or float64
CastsTo(a, dtypes) ==
    {n \in DOMAIN a : target[n] = "to_dtype" /\ a[n].dtype \in dtypes}

\* -2^31 <= v <= 2^31 - 1 for an integer, -2^24 <= v <= 2^24 for a float
Fits32(v) ==
    /\ v.inf = 0
    /\ \/ v.k = "int" /\ -(2^16) <= v.hi /\ v.hi <= 2^16 - 1
       \/ v.k = "float" /\ -(2^9) <= v.hi
                        /\ (v.hi < 2^9 \/ (v.hi = 2^9 /\ v.lo = 0))

RangeFits32(r) == Fits32(r.lower) /\ Fits32(r.upper)

\* C1: a step that rewrites a candidate from int64 to int32 is taken only
\* when every node reached from it without passing a cast to int32, float32
\* or float64, other than store and output nodes, has a range in interp_env
\* with both bounds 32-bit-expressible.
C1_NarrowedOnlyIfDominatedFit ==
    [][\A c \in DOMAIN args :
          (args[c].dtype = "int64" /\ args'[c].dtype = "int32") =>
             \A d \in ReachedFrom(args, c,
                                  CastsTo(args, {"int32", "float32", "float64"})) :
                 target[d] \notin {"store", "output"} =>
                     d \in DOMAIN interp_env /\ RangeFits32(interp_env[d])]_vars

\* a candidate with a dominated node that is neither itself nor a sink has
\* been narrowed
C1_Witness ==
    \E c \in Candidates :
        /\ args[c].dtype = "int32"
        /\ \E d \in ReachedFrom(OrigArgs, c,
                                CastsTo(OrigArgs, {"int32", "float32", "float64"})) :
               d # c /\ target[d] \notin {"store", "output"}

\* n is a load, a reduction or a masked subblock, or reads a node that is
\* forward-reachable from one
RECURSIVE FromTensor(_, _)
FromTensor(a, n) ==
    \/ target[n] \in {"load", "reduction", "masked_subblock0", "masked_subblock1"}
    \/ a[n].x # 0 /\ FromTensor(a, a[n].x)
    \/ a[n].y # 0 /\ FromTensor(a, a[n].y)

\* C2: no step changes a to_dtype node that is forward-reachable from a load,
\* a reduction or a masked subblock: such a cast to int64 stays int64.
C2_TensorCastsKept ==
    [][\A n \in DOMAIN args :
          (target[n] = "to_dtype" /\ FromTensor(args, n)) =>
              args'[n] = args[n]]_vars

\* the pass is over, and a cast to int64 of a boolean computed from a load
\* (whose own range would be [0, 1]) is still int64
C2_Witness ==
    /\ pc = "done"
    /\ \E n \in DOMAIN args :
         /\ target[n] = "to_dtype" /\ args[n].dtype = "int64"
         /\ FromTensor(args, n)
         /\ target[args[n].x] = "logical_not"

\* some index that depends on the variable s binds has an infinite bound
InfiniteIndexOf(s) ==
    \E index \in IndexingNames(args) \cap DOMAIN replacement_vals :
        /\ IndirectVarOf(target[s]) \in IndexIndirectDependencies(index)
        /\ (IsInf(replacement_vals[index].lower)
              \/ IsInf(replacement_vals[index].upper))

\* C3 as stated: a narrowed candidate reaches, along any path, no
\* set_indirect binding with an index of infinite bound.
C3_AnyPath ==
    \A c \in Candidates :
        args[c].dtype = "int32" =>
            ~\E s \in ReachedFrom(OrigArgs, c, {}) :
                IsSetIndirect(target[s]) /\ InfiniteIndexOf(s)

\* C3 amended: a narrowed candidate reaches, along paths that pass no cast
\* to int32, float32 or float64, no set_indirect binding with an index of
\* infinite bound.
C3_UncastPath ==
    \A c \in Candidates :
        args[c].dtype = "int32" =>
            ~\E s \in ReachedFrom(OrigArgs, c,
                                  CastsTo(OrigArgs, {"int32", "float32", "float64"})) :
                IsSetIndirect(target[s]) /\ InfiniteIndexOf(s)

\* the pass is over; a candidate all of whose dominated ranges fit reaches
\* such a binding and is still int64
C3_Witness ==
    /\ pc = "done"
    /\ \E c \in Candidates :
         LET dom == ReachedFrom(OrigArgs, c,
                                CastsTo(OrigArgs, {"int32", "float32", "float64"}))
         IN  /\ args[c].dtype = "int64"
             /\ \E s \in dom : IsSetIndirect(target[s]) /\ InfiniteIndexOf(s)
             /\ \A d \in dom : target[d] \notin {"store", "output"} =>
                                  RangeFits32(interp_env[d])

\* casts to int32 or to a floating type
Recasts(a) ==
    CastsTo(a, {"int32", "float16", "bfloat16", "float32", "float64"})

\* C4: the walk of a candidate holds no user that is a cast to int32 or to
\* a floating type, and a candidate whose ranges up to such casts all fit
\* is narrowed when the pass is over.
C4_RecastStopsWalk ==
    /\ pc = "loop" =>
         LET node == int64_dtype_nodes[pos]
         IN  (dominated_nodes(args, {node}, SkipSet(target, args)) \ {node})
                \cap Recasts(args) = {}
    /\ pc = "done" =>
         \A c \in Candidates :
             (\A d \in ReachedFrom(OrigArgs, c, Recasts(OrigArgs)) :
                  target[d] \notin {"store", "output"} =>
                      /\ ~IsSetIndirect(target[d])
                      /\ RangeFits32(interp_env[d]))
                => args[c].dtype = "int32"

\* C5: a step changes nothing of the body but the dtype of to_dtype nodes,
\* from int64 to int32.
C5_OnlyDtypeRewritten ==
    [][/\ target' = target
       /\ DOMAIN args' = DOMAIN args
       /\ \A n \in DOMAIN args :
            args'[n] # args[n] =>
                /\ target[n] = "to_dtype"
                /\ args[n].dtype = "int64"
                /\ args'[n] = [args[n] EXCEPT !.dtype = "int32"]]_vars

\* the pass is over; one candidate was narrowed and another one, whose walk
\* aborted, was kept
C5_Witness ==
    /\ pc = "done"
    /\ \E c \in Candidates, k \in Candidates :
         /\ args[c].dtype = "int32"
         /\ args[k].dtype = "int64"

\* C6: val_expressable_in_32_bits is true of an integer exactly in
\* [-2^31, 2^31 - 1] and of a float exactly in [-2^24, 2^24], and
\* range_expressable_in_32_bits exactly when it is true of both bounds.
C6_Expressable ==
    /\ unit.fn = "val_expressable_in_32_bits" => (unit.ok <=> Fits32(unit.x))
    /\ unit.fn = "range_expressable_in_32_bits" =>
           (unit.ok <=> Fits32(unit.a.lower) /\ Fits32(unit.a.upper))

\* 2^24 as a float is expressible
C6_Witness ==
    /\ unit.fn = "val_expressable_in_32_bits"
    /\ unit.x = AsFloat(Mantissa)
    /\ unit.ok

\* C7: the loop variable of extent n is seeded with [0, n - 1], and the
\* bound resolved for index0 = 4 * x0 has maximum 4 * (n - 1).
C7_SeedHalfOpen ==
    pc \in {"init", "loop", "done", "raised"} =>
        LET last == VSub(indices_ranges, IntVal(1))
        IN  /\ replacement_vals["x0"] = ValueRanges(IntVal(0), last)
            /\ "index0" \in DOMAIN replacement_vals =>
                   replacement_vals["index0"].upper = VMul(IntVal(4), last)

\* the result of the operation on v (and w) lies in the range returned
Contained ==
    VLe(unit.out.lower, IntVal(unit.r)) /\ VLe(IntVal(unit.r), unit.out.upper)

\* C8: neg, abs and square of a range contain the result on every member.
C8_UnarySound == unit.fn \in {"neg", "abs", "square"} => Contained

\* C9: sub, mul and pow of two ranges contain the result on every pair.
C9_ProductsSound == unit.fn \in {"sub", "mul", "pow"} => Contained

\* the pass run on the body as it was, the candidates taken in graph order
RECURSIVE InGraphOrder(_, _)
InGraphOrder(a, nodes) ==
    IF nodes = <<>> THEN a
    ELSE LET node == Head(nodes)
             o == Outcomes(target, a, interp_env, replacement_vals, node)
         IN  InGraphOrder(IF o = {"narrow"} THEN SetInt32(a, node) ELSE a,
                          Tail(nodes))

\* the positions of int64_dtype_nodes that have been tried
Tried ==
    IF pc = "loop" THEN 1 .. pos - 1
    ELSE IF pc = "raised" THEN 1 .. pos
    ELSE DOMAIN int64_dtype_nodes

\* C10: whatever the order in which the candidates are tried, a candidate
\* that has been tried has the dtype that the pass in graph order gives it,
\* and a pass that completes leaves the body that the pass in graph order
\* leaves.
C10_OrderIndependent ==
    LET inOrder == InGraphOrder(OrigArgs, SortedSeq(Candidates))
    IN  /\ \A i \in Tried :
             args[int64_dtype_nodes[i]] = inOrder[int64_dtype_nodes[i]]
        /\ pc = "done" => \A n \in DOMAIN args : args[n] = inOrder[n]

\* the pass is over; a candidate was narrowed before a candidate that
\* reads it was tried, and that one was narrowed too
C10_Witness ==
    /\ pc = "done"
    /\ \E i, j \in DOMAIN int64_dtype_nodes :
         /\ i < j
         /\ args[int64_dtype_nodes[j]].dtype = "int32"
         /\ args[int64_dtype_nodes[i]].dtype = "int32"
         /\ int64_dtype_nodes[i] \in Users(args, int64_dtype_nodes[j])

====
